---------------------------- MODULE Spec2Model ----------------------------
(***************************************************************************)
(* QR attendance check: the ingestion server (src/server.js), the          *)
(* generator page with clock synchronisation and the population-relative   *)
(* scorer (src/unnamed/part_000) and the earlier generator page with the   *)
(* fixed-threshold scorer (src/public/generator.js, lines 1-175).          *)
(*                                                                         *)
(* The server and the page are separate single-threaded programs: every    *)
(* handler runs to completion, or to its next await, before another one    *)
(* starts.  Each program has its own specification over its own variables; *)
(* the variables of the other programs stay at their initial values.       *)
(*                                                                         *)
(*   SpecServer   server.js: POST /api/qr, GET /api/attend-log             *)
(*   Spec         part_000: start button, clock probe, issuance loop       *)
(*   SpecRefresh  refreshAttendLog of both pages on a fetched log          *)
(*   SpecStats    calculateRobustMean / calculateMeanStd on a list         *)
(*   SpecScore    the suspicion curve on given numbers                     *)
(*                                                                         *)
(* Numbers.  Server-side times are whole milliseconds.  On the page a time *)
(* can carry half a millisecond (timeOffsetMs = serverTime - (t0 + rtt/2)),*)
(* so page-side times are integers counting half-milliseconds: Ms(x) is x  *)
(* whole milliseconds.  Averages and means are exact fractions, a standard *)
(* deviation is kept as its square (the variance): the model computes in   *)
(* exact real arithmetic where the code computes in IEEE doubles.          *)
(***************************************************************************)
EXTENDS Integers, Sequences, FiniteSets, TLC

VARIABLES
    \* ---- server.js ----
    ATTEND_LOG,     \* the in-memory log, oldest first
    accepted,       \* history: every entry ever pushed, as pushed
    req,            \* request handled last: [method, body]
    res,            \* response sent last: [status, body]
    serverClock,    \* last reading of the server's Date.now()
    \* ---- part_000: calculateRobustMean on a list ----
    studentAverages,  \* the argument, a sequence of fractions
    robustStats,      \* the result: [mean, std, included]
    statsDone,        \* the call has returned
    trimTrace,        \* the while loop at its exit: [iterations, sizes], sizes
                      \* the length of currentValues at each test of the loop
    \* ---- part_000: the suspicion curve on given numbers ----
    studentAvg,
    globalMean,
    globalStd,
    suspectRate,
    scored,           \* suspectRate has been computed
    \* ---- the generator page (part_000; generator.js lines 1-175) ----
    tokenCreatedAt,   \* Map: token string -> creation time
    running,
    startBtnDisabled,
    statusEl,         \* statusEl.textContent, as a tag
    timeOffsetMs,     \* half-milliseconds
    lastFpsUpdate,
    frameCount,
    lastTokenUpdate,
    targetFps,
    minTokenInterval,
    consecutiveErrors,
    sessionAesKeyPromise,  \* "null", "pending", "fulfilled" or "rejected"
    keysGenerated,    \* history: importKey calls made by ensureSessionKey
    newestRendered,   \* history: the highest n among the updateToken calls
                      \* that rendered their token, 0 before the first
    qr,               \* text of the QR code on screen, "" before the first
    fpsEl,            \* fpsEl.textContent as a number
    probe,            \* syncServerTime: [outcome, t0, t3, serverTime]
    syncCalls,        \* history: calls of syncServerTime so far
    clicks,           \* history: click events the start button has received
    rafPending,       \* renderLoop callbacks queued by requestAnimationFrame
    mints,            \* updateToken calls in flight: [token, now, stage,
                      \* n, key]: n counts the calls in the order they
                      \* started, key is the importKey call whose promise
                      \* ensureSessionKey returned
    minted,           \* makeLocalToken calls started so far
    clientClock,      \* last reading of the page's Date.now()
    perfClock,        \* last reading of performance.now() / frame timestamp
    fpsSelect,        \* parseInt(fpsSelect.value, 10) of the selected option
    clocks,           \* the environment's clocks: "drawn" or "steady"
    page,             \* the script the browser loaded: "part_000" or
                      \* "generator.js" (its lines 1-175)
    items,            \* data.items of the response refreshAttendLog reads
    studentData,      \* refreshAttendLog: Map studentId -> deltas, in
                      \* insertion order, as a sequence of [studentId, deltas]
    profLogTable,     \* rows of #profLogTable tbody
    refreshed,        \* refreshAttendLog has filled the table
    \* ---- the payload builders (part_000 buildPayload; server.js GET /api/qr)
    nowMs,            \* the timestamp: [hi, mid, lo, half], see Payload below
    payloadPage,      \* bytes returned by buildPayload(nowMs), << >> before
    payloadServer     \* bytes built by GET /api/qr at nowMs, << >> before

serverVars == <<ATTEND_LOG, accepted, req, res, serverClock>>
statsVars == <<studentAverages, robustStats, statsDone, trimTrace>>
scoreVars == <<studentAvg, globalMean, globalStd, suspectRate, scored>>

refreshVars ==
    <<tokenCreatedAt, page, items, studentData, profLogTable, refreshed>>
loopVars ==
    <<lastFpsUpdate, frameCount, lastTokenUpdate, targetFps, minTokenInterval,
      fpsEl, rafPending, perfClock>>
mintVars ==
    <<consecutiveErrors, sessionAesKeyPromise, keysGenerated, newestRendered,
      qr, mints,
      minted>>
startVars ==
    <<running, startBtnDisabled, timeOffsetMs, probe, syncCalls, clicks>>
pageVars ==
    <<loopVars, mintVars, startVars, statusEl, clientClock, fpsSelect, clocks>>

payloadVars == <<nowMs, payloadPage, payloadServer>>

vars ==
    <<serverVars, statsVars, scoreVars, refreshVars, pageVars, payloadVars>>

-----------------------------------------------------------------------------
(* Bounds and input sets *)

\* server.js:20 sets the capacity to 500; the model runs the same code with
\* a small capacity so that eviction is reached.
MAX_ATTEND_LOG == 3

\* Accepted posts explored: enough to run two appends on a full log.
MaxPosts == MAX_ATTEND_LOG + 2

StudentIds == {"s1", "s2"}
\* Scanned texts a client may send: a token of a generator session or not.
Ciphers == {"tok1", "other"}
Ips == {"10.0.0.7"}
ServerTimes == {1000, 1300}

\* A JSON request body: any subset of the two fields may be present, and a
\* present field may be the empty string.  express.json() leaves req.body
\* undefined or {} without a JSON body; `req.body || {}` makes both {}.
FieldValues(f) == (IF f = "cipher" THEN Ciphers ELSE StudentIds) \cup {""}

Bodies ==
    UNION { { b \in [fs -> Ciphers \cup StudentIds \cup {""}] :
                \A f \in fs : b[f] \in FieldValues(f) } :
            fs \in SUBSET {"cipher", "studentId"} }

FalsyAbsentOnly(body, f) == f \notin DOMAIN body

\* JavaScript !x for a destructured string field: undefined or "".
Falsy(body, f) == f \notin DOMAIN body \/ body[f] = ""

NoResponse == [status |-> 0, body |-> [none |-> TRUE]]

-----------------------------------------------------------------------------
(* server.js *)

NoBody == [f \in {} |-> ""]

Min(a, b) == IF a < b THEN a ELSE b

SpliceNewest(log) ==
    IF Len(log) > MAX_ATTEND_LOG THEN SubSeq(log, 1, MAX_ATTEND_LOG) ELSE log

\* ATTEND_LOG.splice(0, ATTEND_LOG.length - MAX_ATTEND_LOG)
SpliceOldest(log) ==
    IF Len(log) > MAX_ATTEND_LOG
    THEN SubSeq(log, Len(log) - MAX_ATTEND_LOG + 1, Len(log))
    ELSE log

NewEntryRedacted(log, body, ip, now) ==
    [id |-> Len(log) + 1,
     logTime |-> now,
     ip |-> ip,
     studentId |-> body.studentId,
     cipher |-> IF body.cipher = "tok1" THEN body.cipher ELSE "",
     serverRecvTs |-> now]

\* The entry POST /api/qr pushes.  logTime is the ISO rendering of a second
\* reading of the same clock in the same handler; it is carried as that
\* reading.
NewEntry(log, body, ip, now) ==
    [id |-> Len(log) + 1,
     logTime |-> now,
     ip |-> ip,
     studentId |-> body.studentId,
     cipher |-> body.cipher,
     serverRecvTs |-> now]

\* app.post("/api/qr")
PostQr ==
    \E body \in Bodies, ip \in Ips :
        /\ req' = [method |-> "POST", body |-> body]
        /\ IF Falsy(body, "cipher") \/ Falsy(body, "studentId")
           THEN /\ res' = [status |-> 400,
                           body |-> [ok |-> FALSE, error |-> "invalid_request"]]
                /\ UNCHANGED <<ATTEND_LOG, accepted, serverClock>>
           ELSE /\ Len(accepted) < MaxPosts
                /\ \E now \in ServerTimes :
                     /\ now >= serverClock
                     /\ serverClock' = now
                     /\ LET e == NewEntry(ATTEND_LOG, body, ip, now) IN
                        /\ ATTEND_LOG' = SpliceOldest(Append(ATTEND_LOG, e))
                        /\ accepted' = Append(accepted, e)
                     /\ res' = [status |-> 200,
                                body |-> [ok |-> TRUE,
                                          studentId |-> body.studentId,
                                          serverRecvTs |-> now,
                                          cipher |-> body.cipher]]

\* app.get("/api/attend-log")
GetAttendLog ==
    /\ res' = [status |-> 200, body |-> [items |-> ATTEND_LOG]]
    /\ req' = [method |-> "GET", body |-> NoBody]
    /\ UNCHANGED <<ATTEND_LOG, accepted, serverClock>>

ServerInit ==
    /\ ATTEND_LOG = << >>
    /\ accepted = << >>
    /\ req = [method |-> "", body |-> NoBody]
    /\ res = NoResponse
    /\ serverClock = 0


-----------------------------------------------------------------------------
(* Exact arithmetic for the page's statistics *)

\* Page-side quantities count half-milliseconds.
Ms(x) == 2 * x

Abs(x) == IF x < 0 THEN -x ELSE x

RECURSIVE GCD(_, _)
GCD(a, b) == IF b = 0 THEN a ELSE GCD(b, a % b)

\* The fraction n/d in lowest terms with a positive denominator.
Frac(n, d) ==
    LET g == GCD(Abs(n), Abs(d))
        sg == IF d < 0 THEN -1 ELSE 1
    IN  [num |-> (sg * n) \div g, den |-> (sg * d) \div g]

RInt(x) == [num |-> x, den |-> 1]
LCM(a, b) == (a \div GCD(a, b)) * b
\* a's numerator over the common denominator of a and b
Over(a, b) == a.num * (LCM(a.den, b.den) \div a.den)
RAdd(a, b) == Frac(Over(a, b) + Over(b, a), LCM(a.den, b.den))
RSub(a, b) == Frac(Over(a, b) - Over(b, a), LCM(a.den, b.den))
RMul(a, b) == Frac(a.num * b.num, a.den * b.den)
RDiv(a, b) == Frac(a.num * b.den, a.den * b.num)
RAbs(a) == [num |-> Abs(a.num), den |-> a.den]
RLt(a, b) == Over(a, b) < Over(b, a)
RLe(a, b) == Over(a, b) <= Over(b, a)

\* A non-negative real kept as its square: Math.sqrt(v) is Sqrt(v).
Sqrt(v) == [sq |-> v]

\* Math.round(m * z + c2 / 2) for a real z >= 0 given as its square z2, with
\* integers m > 0 and c2: the largest integer r with r <= m*z + c2/2 + 1/2,
\* that is 2r - c2 - 1 <= 2*m*z (Math.round rounds halves up).
RoundAffine(m, c2, z2) ==
    LET Below(r) ==
            LET t == 2 * r - c2 - 1
            IN  t <= 0 \/ t * t * z2.den <= 4 * m * m * z2.num
    IN  CHOOSE r \in -1..101 : Below(r) /\ ~Below(r + 1)

\* Math.round(q) for a fraction q: floor(q + 1/2).
Round(q) == (2 * q.num + q.den) \div (2 * q.den)

-----------------------------------------------------------------------------
(* part_000: calculateMeanStd, calculateRobustMean *)

RECURSIVE RSum(_)
RSum(values) ==
    IF values = << >> THEN RInt(0)
    ELSE RAdd(Head(values), RSum(Tail(values)))

RECURSIVE SumSqDev(_, _)
SumSqDev(values, mean) ==
    IF values = << >> THEN RInt(0)
    ELSE LET d == RSub(Head(values), mean)
         IN  RAdd(RMul(d, d), SumSqDev(Tail(values), mean))

\* The sample variance (n - 1) in place of the population variance.
calculateMeanStdSample(values) ==
    IF Len(values) = 0 THEN [mean |-> RInt(0), std |-> Sqrt(RInt(0))]
    ELSE LET mean == RDiv(RSum(values), RInt(Len(values)))
             variance == IF Len(values) = 1 THEN RInt(0)
                         ELSE RDiv(SumSqDev(values, mean),
                                   RInt(Len(values) - 1))
         IN  [mean |-> mean, std |-> Sqrt(variance)]

\* The variance divided by the length once more.
calculateMeanStdShrunk(values) ==
    IF Len(values) = 0 THEN [mean |-> RInt(0), std |-> Sqrt(RInt(0))]
    ELSE LET mean == RDiv(RSum(values), RInt(Len(values)))
             variance == RDiv(SumSqDev(values, mean),
                              RInt(Len(values) * Len(values)))
         IN  [mean |-> mean, std |-> Sqrt(variance)]

\* calculateMeanStd(values): population mean and standard deviation.
calculateMeanStd(values) ==
    IF Len(values) = 0 THEN [mean |-> RInt(0), std |-> Sqrt(RInt(0))]
    ELSE LET mean == RDiv(RSum(values), RInt(Len(values)))
             variance == RDiv(SumSqDev(values, mean), RInt(Len(values)))
         IN  [mean |-> mean, std |-> Sqrt(variance)]

maxIterations == 10

\* Math.abs(mean - prevMean) < 0.1 (milliseconds)
Converged(mean, prevMean) == RLt(RAbs(RSub(mean, prevMean)), Frac(Ms(1), 10))

\* The filter with < in place of <=.
KeepsBelow(val, mean, std, threshold) ==
    LET d == RSub(val, mean)
    IN  IF std.sq.num = 0
        THEN RLt(RAbs(d), RInt(Ms(threshold)))
        ELSE RLt(RMul(d, d), RMul(RInt(threshold * threshold), std.sq))

\* The filter of calculateRobustMean:
\* Math.abs((val - mean) / (std || 1)) <= thresholdStd
Keeps(val, mean, std, threshold) ==
    LET d == RSub(val, mean)
    IN  IF std.sq.num = 0
        THEN RLe(RAbs(d), RInt(Ms(threshold)))
        ELSE RLe(RMul(d, d), RMul(RInt(threshold * threshold), std.sq))

\* The while loop of calculateRobustMean; yields the final currentValues and
\* the number of trimming rounds.
RECURSIVE RobustLoop(_, _, _, _)
RobustLoop(currentValues, prevMean, iterations, threshold) ==
    IF ~(iterations < maxIterations)
    THEN [values |-> currentValues, iterations |-> iterations,
          sizes |-> <<Len(currentValues)>>]
    ELSE
      LET ms == calculateMeanStd(currentValues)
          keep(val) == Keeps(val, ms.mean, ms.std, threshold)
          filtered == SelectSeq(currentValues, keep)
          stop == [values |-> currentValues, iterations |-> iterations,
                   sizes |-> <<Len(currentValues)>>]
      IN  IF Converged(ms.mean, prevMean) THEN stop
          ELSE IF Len(filtered) = 0 \/ Len(filtered) = Len(currentValues)
          THEN stop
          ELSE LET rest == RobustLoop(filtered, ms.mean, iterations + 1,
                                      threshold)
               IN  [rest EXCEPT !.sizes = <<Len(currentValues)>> \o @]

\* The loop of calculateRobustMean(studentAverages, thresholdStd) at its exit.
TrimTrace(averages, threshold) ==
    IF Len(averages) = 0
    THEN [iterations |-> 0, sizes |-> << >>]
    ELSE LET loop == RobustLoop(averages, RInt(0), 0, threshold)
         IN  [iterations |-> loop.iterations, sizes |-> loop.sizes]

\* calculateRobustMean(studentAverages, thresholdStd)
calculateRobustMean(averages, threshold) ==
    IF Len(averages) = 0
    THEN [mean |-> RInt(0), std |-> Sqrt(RInt(0)), included |-> << >>]
    ELSE LET loop == RobustLoop(averages, RInt(0), 0, threshold)
             ms == calculateMeanStd(loop.values)
         IN  [mean |-> ms.mean, std |-> ms.std, included |-> loop.values]

-----------------------------------------------------------------------------
(* part_000: the suspicion curve of refreshAttendLog (lines 352-380) *)

DeadZoneMs == 50

NoDeadZone(absDiff) == FALSE

\* absDiff <= 50
InDeadZone(absDiff) == RLe(absDiff, RInt(Ms(DeadZoneMs)))

\* The top tier without Math.min(..., 5).
TierRateUncapped(z2) ==
    IF RLt(z2, RInt(1)) THEN 0
    ELSE IF RLt(z2, RInt(4)) THEN RoundAffine(40, -20, z2)
    ELSE IF RLt(z2, RInt(9)) THEN RoundAffine(25, 40, z2)
    ELSE LET Below(r) ==
                 LET t == 2 * r - 160 - 1
                 IN  t <= 0 \/ t * t * z2.den <= 4 * 5 * 5 * z2.num
         IN  CHOOSE r \in 0..1000 : Below(r) /\ ~Below(r + 1)

TierRateShifted(z2) ==
    IF RLt(z2, RInt(1)) THEN 0
    ELSE IF RLt(z2, RInt(4)) THEN RoundAffine(40, -18, z2)
    ELSE IF RLt(z2, RInt(9)) THEN RoundAffine(25, 40, z2)
    ELSE IF RLe(RInt(16), z2) THEN 100
    ELSE RoundAffine(5, 160, z2)

\* The z-score tiers; z2 is zScore squared.
\*   zScore < 1.0   0
\*   zScore < 2.0   Math.round(30 + (zScore - 1.0) * 40) = round(40 z - 10)
\*   zScore < 3.0   Math.round(70 + (zScore - 2.0) * 25) = round(25 z + 20)
\*   otherwise      Math.round(95 + Math.min((zScore - 3.0) * 5, 5))
\*                  = 100 when z >= 4, else round(5 z + 80)
TierRate(z2) ==
    IF RLt(z2, RInt(1)) THEN 0
    ELSE IF RLt(z2, RInt(4)) THEN RoundAffine(40, -20, z2)
    ELSE IF RLt(z2, RInt(9)) THEN RoundAffine(25, 40, z2)
    ELSE IF RLe(RInt(16), z2) THEN 100
    ELSE RoundAffine(5, 160, z2)

\* suspectRate for one participant.
SuspectRate(avg, mean, std) ==
    IF ~(std.sq.num > 0) THEN 0
    ELSE LET diff == RSub(avg, mean)
             absDiff == RAbs(diff)
         IN  IF InDeadZone(absDiff) THEN 0
             ELSE TierRate(RDiv(RMul(diff, diff), std.sq))

-----------------------------------------------------------------------------
(* The statistics on drawn inputs *)

\* Longest list of averages explored.
MaxAverages == 5

\* Participant averages in milliseconds, the spec's example among them.
AverageValues == {98, 100, 102, 105, 500}

RECURSIVE SeqsUpTo(_, _)
SeqsUpTo(S, n) ==
    IF n = 0 THEN {<< >>}
    ELSE LET shorter == SeqsUpTo(S, n - 1)
         IN  shorter \cup { Append(q, x) : q \in shorter, x \in S }

\* Sixteen averages, 0 ms five times and 0.5, 1, 2, ..., 512 ms, of which
\* every pass of the loop trims the largest.
RECURSIVE Doubling(_, _)
Doubling(first, n) ==
    IF n = 0 THEN << >> ELSE <<RInt(first)>> \o Doubling(2 * first, n - 1)

DoublingAverages ==
    [i \in 1..5 |-> RInt(0)] \o Doubling(1, maxIterations + 1)

AverageLists ==
    SeqsUpTo({ RInt(Ms(v)) : v \in AverageValues }, MaxAverages)
        \cup {DoublingAverages}

thresholdStd == 2

NoStats == [mean |-> RInt(0), std |-> Sqrt(RInt(0)), included |-> << >>]
NoTrace == [iterations |-> 0, sizes |-> << >>]

StatsIdle ==
    /\ studentAverages = << >>
    /\ robustStats = NoStats
    /\ statsDone = FALSE
    /\ trimTrace = NoTrace

StatsInit ==
    /\ studentAverages \in AverageLists
    /\ robustStats = NoStats
    /\ statsDone = FALSE
    /\ trimTrace = NoTrace

\* const robustStats = calculateRobustMean(studentAverages, 2.0)
CallRobustMean ==
    /\ ~statsDone
    /\ robustStats' = calculateRobustMean(studentAverages, thresholdStd)
    /\ trimTrace' = TrimTrace(studentAverages, thresholdStd)
    /\ statsDone' = TRUE
    /\ UNCHANGED studentAverages

\* Averages, means and standard deviations the curve is evaluated on, in
\* milliseconds.
ScoreAvgValues == 0..260
ScoreMeanValues == {100}
ScoreStdValues == {0, 10, 20, 30, 80}

ScoreIdle ==
    /\ studentAvg = RInt(0)
    /\ globalMean = RInt(0)
    /\ globalStd = Sqrt(RInt(0))
    /\ suspectRate = 0
    /\ scored = FALSE

ScoreInit ==
    /\ studentAvg \in { RInt(Ms(v)) : v \in ScoreAvgValues }
    /\ globalMean \in { RInt(Ms(v)) : v \in ScoreMeanValues }
    /\ globalStd \in { Sqrt(RInt(Ms(v) * Ms(v))) : v \in ScoreStdValues }
    /\ suspectRate = 0
    /\ scored = FALSE

\* let suspectRate = 0; if (globalStd > 0) { ... }
ComputeSuspectRate ==
    /\ ~scored
    /\ suspectRate' = SuspectRate(studentAvg, globalMean, globalStd)
    /\ scored' = TRUE
    /\ UNCHANGED <<studentAvg, globalMean, globalStd>>

-----------------------------------------------------------------------------
(* refreshAttendLog: part_000 lines 288-405, generator.js lines 131-169 *)

DeltaSkippedOrZero(delta) == delta <= 0

\* if (delta < 0) continue
DeltaSkipped(delta) == delta < 0

\* const createdAt = tokenCreatedAt.get(row.cipher); if (!createdAt) continue
\* (undefined for a token this session did not mint; 0 is falsy as well)
NoCreatedAt(created, row) ==
    row.cipher \notin DOMAIN created \/ created[row.cipher] = 0

\* row.serverRecvTs - createdAt
Delta(created, row) == Ms(row.serverRecvTs) - created[row.cipher]

IndexOfStudent(data, sid) ==
    IF \E i \in 1..Len(data) : data[i].studentId = sid
    THEN CHOOSE i \in 1..Len(data) : data[i].studentId = sid
    ELSE 0

\* studentData.get(studentId).deltas.push(delta), creating the entry first
PushDelta(data, sid, delta) ==
    LET i == IndexOfStudent(data, sid)
    IN  IF i = 0
        THEN Append(data, [studentId |-> sid, deltas |-> <<delta>>])
        ELSE [data EXCEPT ![i].deltas = Append(@, delta)]

\* part_000 lines 298-315: for (const row of items) { ... }
RECURSIVE AggregateDeltas(_, _, _)
AggregateDeltas(rows, created, data) ==
    IF rows = << >> THEN data
    ELSE LET row == Head(rows)
             rest == Tail(rows)
         IN  IF NoCreatedAt(created, row)
             THEN AggregateDeltas(rest, created, data)
             ELSE IF DeltaSkipped(Delta(created, row))
             THEN AggregateDeltas(rest, created, data)
             ELSE AggregateDeltas(rest, created,
                                  PushDelta(data, row.studentId,
                                            Delta(created, row)))

RECURSIVE SumSeq(_)
SumSeq(q) == IF q = << >> THEN 0 ELSE Head(q) + SumSeq(Tail(q))

\* deltas.reduce((a, b) => a + b, 0) / deltas.length
AverageOf(deltas) == Frac(SumSeq(deltas), Len(deltas))

\* One value per delta: the events themselves as the population.
RECURSIVE AveragesOfEvents(_)
AveragesOfEvents(data) ==
    IF data = << >> THEN << >>
    ELSE [i \in 1..Len(Head(data).deltas) |-> RInt(Head(data).deltas[i])]
         \o AveragesOfEvents(Tail(data))

\* part_000 lines 318-326: one average per studentData entry with deltas
RECURSIVE AveragesOf(_)
AveragesOf(data) ==
    IF data = << >> THEN << >>
    ELSE IF Len(Head(data).deltas) = 0 THEN AveragesOf(Tail(data))
    ELSE <<AverageOf(Head(data).deltas)>> \o AveragesOf(Tail(data))

MinOf(q) == CHOOSE x \in { q[i] : i \in 1..Len(q) } :
                \A i \in 1..Len(q) : x <= q[i]
MaxOf(q) == CHOOSE x \in { q[i] : i \in 1..Len(q) } :
                \A i \in 1..Len(q) : x >= q[i]

\* The participants in localeCompare order.
StudentOrder == <<"s1", "s2">>

\* part_000 lines 341-401: one table row per participant, sorted by id
RECURSIVE RobustRows(_, _, _)
RobustRows(order, data, stats) ==
    IF order = << >> THEN << >>
    ELSE LET i == IndexOfStudent(data, Head(order))
             rest == RobustRows(Tail(order), data, stats)
         IN  IF i = 0 THEN rest
             ELSE IF Len(data[i].deltas) = 0 THEN rest
             ELSE LET deltas == data[i].deltas
                  IN  << [studentId |-> Head(order),
                          count |-> Len(deltas),
                          avgDelta |-> Round(Frac(SumSeq(deltas),
                                                  Ms(1) * Len(deltas))),
                          minDelta |-> MinOf(deltas),
                          maxDelta |-> MaxOf(deltas),
                          suspectRate |-> SuspectRate(AverageOf(deltas),
                                                      stats.mean, stats.std)]
                      >> \o rest

classifyDeltaInclusive(delta) ==
    IF delta <= Ms(250) THEN [risk |-> "normal", label |-> "trusted"]
    ELSE IF delta <= Ms(600) THEN [risk |-> "suspect", label |-> "doubtful"]
    ELSE [risk |-> "high", label |-> "failed"]

\* generator.js lines 124-128.  The labels are the Korean words for trusted,
\* doubtful and failed.
classifyDelta(delta) ==
    IF delta < Ms(250) THEN [risk |-> "normal", label |-> "trusted"]
    ELSE IF delta < Ms(600) THEN [risk |-> "suspect", label |-> "doubtful"]
    ELSE [risk |-> "high", label |-> "failed"]

\* generator.js lines 138-165: one table row per surviving log row
RECURSIVE FixedRows(_, _)
FixedRows(rows, created) ==
    IF rows = << >> THEN << >>
    ELSE LET row == Head(rows)
             rest == FixedRows(Tail(rows), created)
         IN  IF NoCreatedAt(created, row) THEN rest
             ELSE IF DeltaSkipped(Delta(created, row)) THEN rest
             ELSE LET c == classifyDelta(Delta(created, row))
                  IN  << [id |-> row.id,
                          studentId |-> row.studentId,
                          delta |-> Delta(created, row),
                          risk |-> c.risk,
                          label |-> c.label,
                          timeText |-> row.logTime] >> \o rest

\* Longest fetched log explored.
MaxItems == 2

Tokens == {"tok1", "tok2"}
RowCiphers == Tokens \cup {"other"}
\* Creation times (page side) and receipt times (server side), milliseconds.
CreatedTimes == {1000, 1050, 1100}
RecvTimes == {1000, 1300, 1700}

\* Maps a session can hold: some of the tokens, each with its creation time.
\* Date.now() is positive, so is every recorded time.
TokenMaps ==
    UNION { [ts -> { Ms(t) : t \in CreatedTimes }] : ts \in SUBSET Tokens }

\* Logs the server can return: entries in arrival order, receipt times not
\* decreasing, ids as server.js assigns them below the capacity.
FetchedRows == [studentId : StudentIds, cipher : RowCiphers,
                serverRecvTs : RecvTimes]

ItemLists ==
    { [i \in 1..Len(q) |->
          [id |-> i, logTime |-> q[i].serverRecvTs, ip |-> "10.0.0.7",
           studentId |-> q[i].studentId, cipher |-> q[i].cipher,
           serverRecvTs |-> q[i].serverRecvTs]] :
      q \in { r \in SeqsUpTo(FetchedRows, MaxItems) :
                \A i \in 1..(Len(r) - 1) :
                    r[i].serverRecvTs <= r[i + 1].serverRecvTs } }

RefreshIdle ==
    /\ tokenCreatedAt = << >>
    /\ page = "part_000"
    /\ items = << >>
    /\ studentData = << >>
    /\ profLogTable = << >>
    /\ refreshed = FALSE

\* The inputs of refreshAttendLog: the session's map and the server's answer.
RefreshInit ==
    /\ tokenCreatedAt \in TokenMaps
    /\ page \in {"part_000", "generator.js"}
    /\ items \in ItemLists
    /\ studentData = << >>
    /\ profLogTable = << >>
    /\ refreshed = FALSE

\* part_000 refreshAttendLog.  A failed fetch, a response that is not ok and
\* an exception all leave the page as it is.
refreshAttendLog ==
    /\ page = "part_000"
    /\ \E ok \in BOOLEAN :
        IF ~ok
        THEN UNCHANGED <<statsVars, refreshVars>>
        ELSE LET data == AggregateDeltas(items, tokenCreatedAt, << >>)
                 averages == AveragesOf(data)
                 stats == calculateRobustMean(averages, thresholdStd)
             IN  /\ studentData' = data
                 /\ studentAverages' = averages
                 /\ robustStats' = stats
                 /\ trimTrace' = TrimTrace(averages, thresholdStd)
                 /\ profLogTable' = RobustRows(StudentOrder, data, stats)
                 /\ refreshed' = TRUE
                 /\ UNCHANGED <<tokenCreatedAt, page, items, statsDone>>

\* generator.js (lines 131-169) refreshAttendLog, the fixed-threshold page.
refreshAttendLogFixed ==
    /\ page = "generator.js"
    /\ \E ok \in BOOLEAN :
        IF ~ok
        THEN UNCHANGED <<statsVars, refreshVars>>
        ELSE /\ profLogTable' = FixedRows(items, tokenCreatedAt)
             /\ refreshed' = TRUE
             /\ UNCHANGED <<tokenCreatedAt, page, items, studentData,
                            statsVars>>

-----------------------------------------------------------------------------
(* part_000: the issuing session *)

\* Tokens one session mints in the model.
MaxMints == 2

\* Readings of the page's Date.now(), of the frame clock
\* (performance.now(), the requestAnimationFrame timestamp) and times the
\* time oracle reports, in milliseconds.
ClientTimes == {1000, 1020, 1021}
PerfTimes == {5, 17, 40, 1100}
ReportedTimes == {990, 1050}

FpsWindowMs == 1000
PersistentErrors == 10

\* Tokens minted in a long session on steady clocks.
MaxSteadyMints == 11

\* Click events the start button receives in the model.
MaxClicks == 2

\* Math.round(1000 / targetFps)
IntervalFor(fps) == Round(Frac(1000, fps))

\* The frame period of a 60 Hz display, in whole milliseconds.
FrameMs == Round(Frac(1000, 60))

\* What Date.now() can return next.
ClientReadings ==
    IF clocks = "steady"
    THEN {IF clientClock = 0 THEN 1000 ELSE clientClock + FrameMs}
    ELSE {t \in ClientTimes : t >= clientClock}

\* What performance.now() can return next.
PerfReadings ==
    IF clocks = "steady" THEN {perfClock + FrameMs}
    ELSE {p \in PerfTimes : p >= perfClock}

\* The timestamp requestAnimationFrame can pass to the next frame callback.
FrameStamps ==
    IF clocks = "steady" THEN {perfClock + FrameMs}
    ELSE {p \in PerfTimes : p > perfClock}

\* The bound on the tokens a session mints.  On steady clocks a mint is
\* over before the next frame: a frame every FrameMs milliseconds, and
\* importKey, encrypt and the QR rendering each taking less than that.
MayMint ==
    IF clocks = "steady"
    THEN minted < MaxSteadyMints /\ mints = {}
    ELSE minted < MaxMints

NoProbe == [outcome |-> "none", t0 |-> 0, t3 |-> 0, serverTime |-> 0]

PageLoad ==
    /\ running = FALSE
    /\ startBtnDisabled = FALSE
    /\ statusEl = ""
    /\ timeOffsetMs = 0
    /\ lastFpsUpdate = 0
    /\ frameCount = 0
    /\ lastTokenUpdate = 0
    /\ targetFps = 60
    /\ minTokenInterval = IntervalFor(60)
    /\ consecutiveErrors = 0
    /\ sessionAesKeyPromise = "null"
    /\ keysGenerated = 0
    /\ newestRendered = 0
    /\ syncCalls = 0
    /\ clicks = 0
    /\ qr = ""
    /\ fpsEl = 0
    /\ probe = NoProbe
    /\ rafPending = 0
    /\ mints = {}
    /\ minted = 0
    /\ clientClock = 0
    /\ perfClock = 0
    /\ fpsSelect = [finite |-> TRUE, n |-> 60]

PageInit == PageLoad /\ clocks = "drawn"

PageInitSteady == PageLoad /\ clocks = "steady"

OffsetOfFullRtt(t0, t3, serverTime) ==
    LET rtt == t3 - t0
    IN  Ms(serverTime) - (Ms(t0) + Ms(rtt))

\* syncServerTime lines 99-103, in half-milliseconds:
\* rtt = t3 - t0; clientAtServerStamp = t0 + rtt / 2;
\* timeOffsetMs = serverTime - clientAtServerStamp
OffsetOf(t0, t3, serverTime) ==
    LET rtt == t3 - t0
        clientAtServerStamp == Ms(t0) + rtt
    IN  Ms(serverTime) - clientAtServerStamp

\* The click handler after `await syncServerTime()` (lines 227-232).
StartLoop ==
    /\ \E p \in PerfReadings :
          /\ perfClock' = p
          /\ lastFpsUpdate' = p
    /\ frameCount' = 0
    /\ lastTokenUpdate' = 0
    /\ rafPending' = rafPending + 1
    /\ UNCHANGED <<targetFps, minTokenInterval, fpsEl>>

\* The handler starting over on every click, also while the probe is
\* awaited.
startBtnClickEveryTime ==
    /\ clicks < MaxClicks
    /\ clicks' = clicks + 1
    /\ running' = TRUE
    /\ startBtnDisabled' = TRUE
    /\ statusEl' = "initializing"
    /\ \E t0 \in ClientReadings :
          /\ clientClock' = t0
          /\ probe' = [outcome |-> "pending", t0 |-> t0, t3 |-> 0,
                       serverTime |-> 0]
    /\ syncCalls' = syncCalls + 1
    /\ UNCHANGED <<tokenCreatedAt, loopVars, mintVars, timeOffsetMs,
                   fpsSelect, clocks>>

\* The handler without `if (running) return`.
startBtnClickAgain ==
    /\ clicks < MaxClicks
    /\ clicks' = clicks + 1
    /\ probe.outcome # "pending"
    /\ running' = TRUE
    /\ startBtnDisabled' = TRUE
    /\ statusEl' = "initializing"
    /\ \E t0 \in ClientReadings :
          /\ clientClock' = t0
          /\ probe' = [outcome |-> "pending", t0 |-> t0, t3 |-> 0,
                       serverTime |-> 0]
    /\ syncCalls' = syncCalls + 1
    /\ UNCHANGED <<tokenCreatedAt, loopVars, mintVars, timeOffsetMs,
                   fpsSelect, clocks>>

\* startBtn click handler up to the fetch of syncServerTime (lines 218-225,
\* 93-94).
startBtnClick ==
    /\ clicks < MaxClicks
    /\ clicks' = clicks + 1
    /\ IF running
       THEN UNCHANGED <<tokenCreatedAt, loopVars, mintVars, running,
                        startBtnDisabled, timeOffsetMs, probe, syncCalls,
                        statusEl, clientClock, fpsSelect, clocks>>
       ELSE
         /\ running' = TRUE
         /\ startBtnDisabled' = TRUE
         /\ statusEl' = "initializing"
         /\ \E t0 \in ClientReadings :
               /\ clientClock' = t0
               /\ probe' = [outcome |-> "pending", t0 |-> t0, t3 |-> 0,
                            serverTime |-> 0]
         /\ syncCalls' = syncCalls + 1
         /\ UNCHANGED <<tokenCreatedAt, loopVars, mintVars, timeOffsetMs,
                        fpsSelect, clocks>>

syncServerTimeFailAborts ==
    /\ probe.outcome = "pending"
    /\ probe' = [probe EXCEPT !.outcome = "failed"]
    /\ timeOffsetMs' = 0
    /\ UNCHANGED <<tokenCreatedAt, loopVars, mintVars, running,
                   startBtnDisabled, syncCalls, clicks, statusEl, clientClock,
                   fpsSelect, clocks>>

\* syncServerTime when fetch or res.json() rejects (lines 105-109), then the
\* rest of the click handler.
syncServerTimeFail ==
    /\ probe.outcome = "pending"
    /\ probe' = [probe EXCEPT !.outcome = "failed"]
    /\ timeOffsetMs' = 0
    /\ StartLoop
    /\ UNCHANGED <<tokenCreatedAt, mintVars, running, startBtnDisabled,
                   syncCalls, clicks,
                   statusEl, clientClock,
                   fpsSelect, clocks>>

\* syncServerTime when the oracle answers {serverTime} (lines 95-104), then
\* the rest of the click handler.
syncServerTimeReply ==
    /\ probe.outcome = "pending"
    /\ \E t3 \in ClientReadings, serverTime \in ReportedTimes :
          /\ clientClock' = t3
          /\ probe' = [outcome |-> "ok", t0 |-> probe.t0, t3 |-> t3,
                       serverTime |-> serverTime]
          /\ timeOffsetMs' = OffsetOf(probe.t0, t3, serverTime)
    /\ StartLoop
    /\ UNCHANGED <<tokenCreatedAt, mintVars, running, startBtnDisabled,
                   syncCalls, clicks,
                   statusEl, fpsSelect, clocks>>

\* parseInt(fpsSelect.value, 10): NaN, or an integer.
ParsedFps ==
    {[finite |-> FALSE, n |-> 0]} \cup
    {[finite |-> TRUE, n |-> v] : v \in {0, 15, 30, 60}}

fpsSelectChangeRestarts ==
    \E value \in ParsedFps \ {fpsSelect} :
        /\ fpsSelect' = value
        /\ IF ~value.finite \/ value.n <= 0
           THEN UNCHANGED <<tokenCreatedAt, loopVars, mintVars, startVars,
                            statusEl, clientClock, clocks>>
           ELSE /\ targetFps' = value.n
                /\ minTokenInterval' = IntervalFor(value.n)
                /\ statusEl' = "target fps set"
                /\ frameCount' = 0
                /\ lastTokenUpdate' = 0
                /\ UNCHANGED <<tokenCreatedAt, lastFpsUpdate, fpsEl,
                               rafPending, perfClock, mintVars, startVars,
                               clientClock, clocks>>

\* fpsSelect change handler (lines 236-242); the event fires when the
\* selected option changes.
fpsSelectChange ==
    \E value \in ParsedFps \ {fpsSelect} :
        /\ fpsSelect' = value
        /\ IF ~value.finite \/ value.n <= 0
           THEN UNCHANGED <<tokenCreatedAt, loopVars, mintVars, startVars,
                            statusEl, clientClock, clocks>>
           ELSE /\ targetFps' = value.n
                /\ minTokenInterval' = IntervalFor(value.n)
                /\ statusEl' = "target fps set"
                /\ UNCHANGED <<tokenCreatedAt, lastFpsUpdate, frameCount,
                               lastTokenUpdate, fpsEl, rafPending, perfClock,
                               mintVars, startVars, clientClock, clocks>>

TokenName(n) == "tok" \o ToString(n)

\* A key is generated as long as none has been imported.
GeneratesKeyUntilImported == sessionAesKeyPromise \in {"null", "pending"}

\* if (!sessionAesKeyPromise) (line 36): a promise object is truthy, settled
\* or not.
GeneratesKey == sessionAesKeyPromise = "null"

\* ensureSessionKey (lines 35-48): the promise is created on first use.
ensureSessionKey ==
    IF GeneratesKey THEN "pending" ELSE sessionAesKeyPromise

IntervalElapsedStrict(now) == now - lastTokenUpdate > minTokenInterval

\* now - lastTokenUpdate >= minTokenInterval (line 191)
IntervalElapsed(now) == now - lastTokenUpdate >= minTokenInterval

\* renderLoop(now) (lines 184-204).  When the interval has elapsed it calls
\* updateToken, which runs makeLocalToken up to `await ensureSessionKey()`
\* (lines 123-128): the creation time is read here.
renderLoop ==
    /\ rafPending > 0
    /\ \E now \in FrameStamps :
        /\ perfClock' = now
        /\ IF ~running
           THEN /\ rafPending' = rafPending - 1
                /\ UNCHANGED <<tokenCreatedAt, lastFpsUpdate, frameCount,
                               lastTokenUpdate, targetFps, minTokenInterval,
                               fpsEl, mintVars, startVars, statusEl,
                               clientClock, fpsSelect, clocks>>
           ELSE
             /\ IF IntervalElapsed(now)
                THEN /\ MayMint
                     /\ lastTokenUpdate' = now
                     /\ keysGenerated' =
                            IF GeneratesKey THEN keysGenerated + 1
                            ELSE keysGenerated
                     /\ \E clientNow \in ClientReadings :
                          /\ clientClock' = clientNow
                          /\ mints' = mints \cup
                                {[token |-> TokenName(minted + 1),
                                  now |-> Ms(clientNow) + timeOffsetMs,
                                  stage |-> "key",
                                  n |-> minted + 1,
                                  key |-> keysGenerated']}
                     /\ minted' = minted + 1
                     /\ sessionAesKeyPromise' = ensureSessionKey
                ELSE UNCHANGED <<lastTokenUpdate, clientClock, mints, minted,
                                 sessionAesKeyPromise, keysGenerated>>
             /\ IF now - lastFpsUpdate >= FpsWindowMs
                THEN /\ fpsEl' = frameCount + 1
                     /\ frameCount' = 0
                     /\ lastFpsUpdate' = now
                ELSE /\ frameCount' = frameCount + 1
                     /\ UNCHANGED <<fpsEl, lastFpsUpdate>>
             /\ UNCHANGED <<tokenCreatedAt, rafPending, targetFps,
                            minTokenInterval, consecutiveErrors, qr,
                            newestRendered, startVars, statusEl, fpsSelect,
                            clocks>>

\* crypto.subtle.importKey settles.
importKeySettles ==
    /\ sessionAesKeyPromise = "pending"
    /\ sessionAesKeyPromise' \in {"fulfilled", "rejected"}
    /\ UNCHANGED <<tokenCreatedAt, loopVars, consecutiveErrors, keysGenerated,
                   newestRendered,
                   qr, mints, minted, startVars, statusEl, clientClock,
                   fpsSelect, clocks>>

SetStage(m, st) == (mints \ {m}) \cup {[m EXCEPT !.stage = st]}

\* The call that resumes when the key promise is settled: the reactions of
\* one promise run in the order in which they were attached (line 128).
AwaitingKey ==
    {m \in mints : /\ m.stage = "key"
                   /\ \A k \in mints : k.stage = "key" => m.n <= k.n}

\* makeLocalToken resumes after `await ensureSessionKey()` (lines 128-140):
\* it builds the payload and calls encrypt, or the rejection propagates.
makeLocalTokenGotKey ==
    /\ \E m \in AwaitingKey :
        /\ sessionAesKeyPromise \in {"fulfilled", "rejected"}
        /\ mints' = SetStage(m, IF sessionAesKeyPromise = "fulfilled"
                                THEN "encrypt" ELSE "throw")
    /\ UNCHANGED <<tokenCreatedAt, loopVars, consecutiveErrors,
                   sessionAesKeyPromise, keysGenerated,
                   newestRendered, qr, minted,
                   startVars, statusEl,
                   clientClock,
                   fpsSelect, clocks>>

\* The cipher returned without its creation time being recorded.
makeLocalTokenEncryptedUnrecorded ==
    /\ \E m \in mints, ok \in BOOLEAN :
        /\ m.stage = "encrypt"
        /\ mints' = SetStage(m, IF ok THEN "render" ELSE "throw")
    /\ UNCHANGED <<tokenCreatedAt, loopVars, consecutiveErrors,
                   sessionAesKeyPromise, keysGenerated,
                   newestRendered, qr, minted, startVars,
                   statusEl, clientClock, fpsSelect, clocks>>

\* The creation time read when the encryption has completed.
makeLocalTokenEncryptedLate ==
    /\ \E m \in mints, ok \in BOOLEAN :
        /\ m.stage = "encrypt"
        /\ IF ok
           THEN /\ tokenCreatedAt' =
                      [c \in DOMAIN tokenCreatedAt \cup {m.token} |->
                          IF c = m.token THEN Ms(clientClock) + timeOffsetMs
                          ELSE tokenCreatedAt[c]]
                /\ mints' = SetStage(m, "render")
           ELSE /\ mints' = SetStage(m, "throw")
                /\ UNCHANGED tokenCreatedAt
    /\ UNCHANGED <<loopVars, consecutiveErrors, sessionAesKeyPromise,
                   keysGenerated,
                   newestRendered, qr, minted, startVars, statusEl,
                   clientClock, fpsSelect, clocks>>

\* makeLocalToken resumes after `await crypto.subtle.encrypt` (lines
\* 141-148): tokenCreatedAt.set(cipherBase64, now), or the rejection
\* propagates.
makeLocalTokenEncrypted ==
    /\ \E m \in mints, ok \in BOOLEAN :
        /\ m.stage = "encrypt"
        /\ IF ok
           THEN /\ tokenCreatedAt' =
                      [c \in DOMAIN tokenCreatedAt \cup {m.token} |->
                          IF c = m.token THEN m.now ELSE tokenCreatedAt[c]]
                /\ mints' = SetStage(m, "render")
           ELSE /\ mints' = SetStage(m, "throw")
                /\ UNCHANGED tokenCreatedAt
    /\ UNCHANGED <<loopVars, consecutiveErrors, sessionAesKeyPromise,
                   keysGenerated,
                   newestRendered, qr, minted, startVars, statusEl, clientClock,
                   fpsSelect, clocks>>

CatchBlockLate ==
    /\ consecutiveErrors' = consecutiveErrors + 1
    /\ statusEl' = IF consecutiveErrors + 1 > PersistentErrors
                   THEN "errors keep repeating" ELSE "error"

\* The catch block of updateToken (lines 172-181).
CatchBlock ==
    /\ consecutiveErrors' = consecutiveErrors + 1
    /\ statusEl' = IF consecutiveErrors + 1 >= PersistentErrors
                   THEN "errors keep repeating" ELSE "error"

\* updateToken resumes after `await makeLocalToken()` with a cipher (lines
\* 154-171): it empties the container and renders the QR code; when
\* new QRCode(...) throws the container stays empty.
updateTokenRender ==
    /\ \E m \in mints, ok \in BOOLEAN :
        /\ m.stage = "render"
        /\ mints' = mints \ {m}
        /\ IF ok
           THEN /\ qr' = m.token
                /\ statusEl' = "Token updated (local)"
                /\ consecutiveErrors' = 0
                /\ newestRendered' =
                       IF m.n > newestRendered THEN m.n ELSE newestRendered
           ELSE /\ CatchBlock
                /\ qr' = ""
                /\ UNCHANGED newestRendered
    /\ UNCHANGED <<tokenCreatedAt, loopVars, sessionAesKeyPromise,
                   keysGenerated, minted,
                   startVars, clientClock,
                   fpsSelect, clocks>>

updateTokenCatchStops ==
    /\ \E m \in mints :
        /\ m.stage = "throw"
        /\ mints' = mints \ {m}
    /\ CatchBlock
    /\ running' = (consecutiveErrors + 1 < PersistentErrors)
    /\ UNCHANGED <<tokenCreatedAt, loopVars, sessionAesKeyPromise,
                   keysGenerated,
                   newestRendered, qr, minted,
                   startBtnDisabled, timeOffsetMs, probe, syncCalls,
                   clicks, clientClock,
                   fpsSelect, clocks>>

\* updateToken resumes after `await makeLocalToken()` with a rejection.
updateTokenCatch ==
    /\ \E m \in mints :
        /\ m.stage = "throw"
        /\ mints' = mints \ {m}
    /\ CatchBlock
    /\ UNCHANGED <<tokenCreatedAt, loopVars, sessionAesKeyPromise,
                   keysGenerated,
                   newestRendered, qr, minted,
                   startVars, clientClock,
                   fpsSelect, clocks>>

-----------------------------------------------------------------------------
(* The payload builders: part_000 buildPayload, server.js GET /api/qr *)

\* A timestamp in milliseconds is beyond 2^31, so it is kept in base 65536:
\* (hi * 65536 + mid) * 65536 + lo + half / 2 milliseconds, with
\* 0 <= mid, lo < 65536, hi >= 0 and half 0 or 1.  The page passes
\* Date.now() + timeOffsetMs, which carries a half millisecond when the
\* probe's round trip was odd; the server passes Date.now().
Limb == 65536

TimestampHi == {0, 417}
TimestampMid == {0, 4660, 65535}
TimestampLo == {0, 255, 43981, 65535}
Timestamps ==
    [hi : TimestampHi, mid : TimestampMid, lo : TimestampLo, half : {0, 1}]

\* crypto.getRandomValues(new Uint8Array(4)) / crypto.randomBytes(4)
NonceValues == {<<0, 0, 0, 0>>, <<222, 173, 190, 239>>}

\* (nowMs & 0xffffffff) >>> 0 for nowMs >= 0: ToInt32 drops the fraction and
\* keeps the value modulo 2^32, `& 0xffffffff` leaves those 32 bits as they
\* are, `>>> 0` reads them as an unsigned number.
TsLow(t) == [mid |-> t.mid % Limb, lo |-> t.lo % Limb]

Uint32LE(u) == <<u.lo % 256, u.lo \div 256, u.mid % 256, u.mid \div 256>>

\* view.setUint32(1, tsLow, false): littleEndian = false, the four bytes
\* most significant first.
Uint32BE(u) == <<u.mid \div 256, u.mid % 256, u.lo \div 256, u.lo % 256>>

\* part_000 buildPayload: version = 1, roomCode = 1; index i + 1 is offset i.
Payload(t, nonce) == <<1>> \o Uint32BE(TsLow(t)) \o <<1>> \o nonce

\* payload.writeUInt32BE(tsLow, 1) of a Node Buffer.
writeUInt32BE(u) ==
    <<u.mid \div 256, u.mid % 256, u.lo \div 256, u.lo % 256>>

\* server.js lines 83-93: Buffer.alloc(10), writeUInt8(version, 0),
\* writeUInt32BE(tsLow, 1), writeUInt8(roomCode, 5), nonceBuf.copy(payload, 6).
QrPayload(t, nonceBuf) ==
    [i \in 1..10 |->
        IF i = 1 THEN 1
        ELSE IF i \in 2..5 THEN writeUInt32BE(TsLow(t))[i - 1]
        ELSE IF i = 6 THEN 1
        ELSE nonceBuf[i - 6]]

PayloadIdle ==
    /\ nowMs = [hi |-> 0, mid |-> 0, lo |-> 0, half |-> 0]
    /\ payloadPage = << >>
    /\ payloadServer = << >>

PayloadInit ==
    /\ nowMs \in Timestamps
    /\ payloadPage = << >>
    /\ payloadServer = << >>

\* part_000 buildPayload(nowMs)
buildPayload ==
    /\ payloadPage = << >>
    /\ \E nonceBytes \in NonceValues :
          payloadPage' = Payload(nowMs, nonceBytes)
    /\ UNCHANGED <<nowMs, payloadServer>>

\* server.js GET /api/qr, lines 81-93, with nowMs = Date.now(), a whole
\* number of milliseconds.
GetQrPayload ==
    /\ payloadServer = << >>
    /\ nowMs.half = 0
    /\ \E nonceBuf \in NonceValues :
          payloadServer' = QrPayload(nowMs, nonceBuf)
    /\ UNCHANGED <<nowMs, payloadPage>>

-----------------------------------------------------------------------------
(* Specifications *)

refreshOnly == <<page, items, studentData, profLogTable, refreshed>>
notServer == <<statsVars, scoreVars, refreshVars, pageVars, payloadVars>>
notStats == <<serverVars, scoreVars, refreshVars, pageVars, payloadVars>>
notScore == <<serverVars, statsVars, refreshVars, pageVars, payloadVars>>
notRefresh == <<serverVars, scoreVars, pageVars, payloadVars>>
notPage == <<serverVars, statsVars, scoreVars, refreshOnly, payloadVars>>
notPayload == <<serverVars, statsVars, scoreVars, refreshVars, pageVars>>

\* server.js
ServerNext ==
    \/ PostQr /\ UNCHANGED notServer
    \/ GetAttendLog /\ UNCHANGED notServer

InitServer ==
    ServerInit /\ StatsIdle /\ ScoreIdle /\ RefreshIdle /\ PageInit
    /\ PayloadIdle

SpecServer == InitServer /\ [][ServerNext]_vars

\* calculateRobustMean on a drawn list
StatsNext == CallRobustMean /\ UNCHANGED notStats

InitStats ==
    ServerInit /\ StatsInit /\ ScoreIdle /\ RefreshIdle /\ PageInit
    /\ PayloadIdle

SpecStats == InitStats /\ [][StatsNext]_vars

\* the suspicion curve on drawn numbers
ScoreNext == ComputeSuspectRate /\ UNCHANGED notScore

InitScore ==
    ServerInit /\ StatsIdle /\ ScoreInit /\ RefreshIdle /\ PageInit
    /\ PayloadIdle

SpecScore == InitScore /\ [][ScoreNext]_vars

\* refreshAttendLog of either page on a drawn map and a drawn response
RefreshNext ==
    \/ refreshAttendLog /\ UNCHANGED notRefresh
    \/ refreshAttendLogFixed /\ UNCHANGED notRefresh

InitRefresh ==
    ServerInit /\ StatsIdle /\ ScoreIdle /\ RefreshInit /\ PageInit
    /\ PayloadIdle

SpecRefresh == InitRefresh /\ [][RefreshNext]_vars

\* the payload builders on a drawn timestamp
InitPayload ==
    ServerInit /\ StatsIdle /\ ScoreIdle /\ RefreshIdle /\ PageInit
    /\ PayloadInit

PayloadNext ==
    \/ buildPayload /\ UNCHANGED notPayload
    \/ GetQrPayload /\ UNCHANGED notPayload

SpecPayload == InitPayload /\ [][PayloadNext]_vars

\* the issuing session of part_000
Init ==
    ServerInit /\ StatsIdle /\ ScoreIdle /\ RefreshIdle /\ PageInit
    /\ PayloadIdle

Next ==
    \/ startBtnClick /\ UNCHANGED notPage
    \/ fpsSelectChange /\ UNCHANGED notPage
    \/ syncServerTimeReply /\ UNCHANGED notPage
    \/ syncServerTimeFail /\ UNCHANGED notPage
    \/ renderLoop /\ UNCHANGED notPage
    \/ importKeySettles /\ UNCHANGED notPage
    \/ makeLocalTokenGotKey /\ UNCHANGED notPage
    \/ makeLocalTokenEncrypted /\ UNCHANGED notPage
    \/ updateTokenRender /\ UNCHANGED notPage
    \/ updateTokenCatch /\ UNCHANGED notPage

Spec == Init /\ [][Next]_vars

\* the issuing session of part_000 over many frames on steady clocks, the
\* FPS selection left alone
InitSteady ==
    ServerInit /\ StatsIdle /\ ScoreIdle /\ RefreshIdle /\ PageInitSteady
    /\ PayloadIdle

SteadyNext ==
    \/ startBtnClick /\ UNCHANGED notPage
    \/ syncServerTimeReply /\ UNCHANGED notPage
    \/ syncServerTimeFail /\ UNCHANGED notPage
    \/ renderLoop /\ UNCHANGED notPage
    \/ importKeySettles /\ UNCHANGED notPage
    \/ makeLocalTokenGotKey /\ UNCHANGED notPage
    \/ makeLocalTokenEncrypted /\ UNCHANGED notPage
    \/ updateTokenRender /\ UNCHANGED notPage
    \/ updateTokenCatch /\ UNCHANGED notPage

SpecSteady == InitSteady /\ [][SteadyNext]_vars

-----------------------------------------------------------------------------
(* Claims about server.js, checked under SpecServer *)

IsQuery(r) == "items" \in DOMAIN r.body

\* C1: after n accepted POST /api/qr, interleaved in any order with
\* GET /api/attend-log, the log is exactly the last min(n, MAX_ATTEND_LOG)
\* accepted entries in arrival order, and no query response carries more than
\* MAX_ATTEND_LOG entries.
C1_LogIsMostRecent ==
    LET n == Len(accepted)
        k == Min(n, MAX_ATTEND_LOG)
    IN  /\ ATTEND_LOG = SubSeq(accepted, n - k + 1, n)
        /\ Len(ATTEND_LOG) = k
        /\ IsQuery(res) =>
              /\ Len(res.body.items) <= MAX_ATTEND_LOG
              /\ res.body.items = ATTEND_LOG

\* A query answered after the oldest entry has been evicted.
C1_Witness ==
    /\ Len(accepted) > MAX_ATTEND_LOG
    /\ IsQuery(res)
    /\ Len(res.body.items) = MAX_ATTEND_LOG
    /\ res.body.items[1] = accepted[Len(accepted) - MAX_ATTEND_LOG + 1]

\* C2: every appended entry gets an id strictly greater than the id of every
\* entry appended before it, also on a full log; hence the retained ids are
\* pairwise distinct.
C2_IdsStrictlyIncreasing ==
    /\ \A i, j \in 1..Len(accepted) : i < j => accepted[i].id < accepted[j].id
    /\ \A i, j \in 1..Len(ATTEND_LOG) :
          i # j => ATTEND_LOG[i].id # ATTEND_LOG[j].id

InvalidPost(r) ==
    /\ r.method = "POST"
    /\ \/ "cipher" \notin DOMAIN r.body
       \/ "studentId" \notin DOMAIN r.body
       \/ r.body.cipher = ""
       \/ r.body.studentId = ""

\* C3: a POST /api/qr whose cipher or studentId is absent or empty is answered
\* 400 {ok:false, error:"invalid_request"} and leaves the log unchanged.
C3_InvalidRequestRejected ==
    [][InvalidPost(req') =>
         /\ res'.status = 400
         /\ res'.body = [ok |-> FALSE, error |-> "invalid_request"]
         /\ ATTEND_LOG' = ATTEND_LOG
         /\ accepted' = accepted]_vars

\* An empty studentId rejected while the log holds entries.
C3_Witness ==
    /\ InvalidPost(req)
    /\ "studentId" \in DOMAIN req.body
    /\ req.body.studentId = ""
    /\ res.status = 400
    /\ Len(ATTEND_LOG) > 0


ValidPost(r) ==
    /\ r.method = "POST"
    /\ {"cipher", "studentId"} \subseteq DOMAIN r.body
    /\ r.body.cipher # ""
    /\ r.body.studentId # ""

-----------------------------------------------------------------------------
(* Claims about the statistics, checked under SpecStats and SpecScore *)

\* The spec's example input, in milliseconds: [100, 105, 98, 102, 500].
ExampleAverages ==
    << RInt(Ms(100)), RInt(Ms(105)), RInt(Ms(98)), RInt(Ms(102)),
       RInt(Ms(500)) >>

\* C5 as stated: for [100, 105, 98, 102, 500] and threshold 2.0 the included
\* set has exactly 4 elements, 500 is not among them, and mean and std are
\* those of [100, 105, 98, 102] (mean 101.25 ms, variance 6.6875 ms^2).
C5_ExampleTrimsOutlier ==
    (statsDone /\ studentAverages = ExampleAverages) =>
        /\ Len(robustStats.included) = 4
        /\ \A i \in 1..Len(robustStats.included) :
              robustStats.included[i] # RInt(Ms(500))
        /\ robustStats.mean = Frac(Ms(405), 4)
        /\ robustStats.std = Sqrt(Frac(4 * 66875, 10000))

\* C5 amended: for [100, 105, 98, 102, 500] and threshold 2.0 nothing is
\* trimmed (the z-score of 500 is 319 / sqrt(25445.6) < 2): included is the
\* whole input, 500 among them, the mean is 181 ms and the variance is
\* 25445.6 ms^2.
C5_ExampleKeepsAll ==
    (statsDone /\ studentAverages = ExampleAverages) =>
        /\ robustStats.included = ExampleAverages
        /\ Len(robustStats.included) = 5
        /\ robustStats.mean = RInt(Ms(181))
        /\ robustStats.std = Sqrt(Frac(4 * 254456, 10))

C5_Witness ==
    /\ statsDone
    /\ studentAverages = ExampleAverages
    /\ Len(robustStats.included) > 0

\* Inputs of the curve as whole numbers of half-milliseconds.
ScoreAbsDiff == Abs(studentAvg.num - globalMean.num)
ScoreStd == CHOOSE sd \in 0..Ms(100) : sd * sd = globalStd.sq.num

\* r is num/den rounded to the nearest integer, halves up (den > 0).
IsRounded(r, num, den) ==
    /\ 2 * den * r - den <= 2 * num
    /\ 2 * num < 2 * den * r + den

\* C6: for std > 0 and absDiff > 50, with z = absDiff / std, the score is 0
\* when z < 1, round(30 + (z-1)*40) when 1 <= z < 2, round(70 + (z-2)*25)
\* when 2 <= z < 3 and round(95 + min((z-3)*5, 5)) when z >= 3; mean 100,
\* std 20 gives 0 for studentAvg 100 and 95 for studentAvg 160.
C6_TieredScore ==
    LET a == ScoreAbsDiff
        sd == ScoreStd
    IN  /\ (scored /\ sd > 0 /\ a > Ms(50)) =>
              /\ a < sd => suspectRate = 0
              /\ (sd <= a /\ a < 2 * sd) =>
                    IsRounded(suspectRate, 30 * sd + (a - sd) * 40, sd)
              /\ (2 * sd <= a /\ a < 3 * sd) =>
                    IsRounded(suspectRate, 70 * sd + (a - 2 * sd) * 25, sd)
              /\ (3 * sd <= a /\ a < 4 * sd) =>
                    IsRounded(suspectRate, 95 * sd + (a - 3 * sd) * 5, sd)
              /\ 4 * sd <= a => suspectRate = 100
        /\ (scored /\ globalMean = RInt(Ms(100)) /\ sd = Ms(20)) =>
              /\ studentAvg = RInt(Ms(100)) => suspectRate = 0
              /\ studentAvg = RInt(Ms(160)) => suspectRate = 95

\* mean 100, std 20, studentAvg 160: z = 3.0 and the score is 95.
C6_Witness ==
    /\ scored
    /\ globalMean = RInt(Ms(100))
    /\ ScoreStd = Ms(20)
    /\ studentAvg = RInt(Ms(160))
    /\ suspectRate = 95

\* C7: the score is 0 whenever std is 0, and 0 whenever absDiff <= 50,
\* whatever std and the z-score.
C7_ZeroStdAndDeadZone ==
    scored =>
        /\ ScoreStd = 0 => suspectRate = 0
        /\ ScoreAbsDiff <= Ms(50) => suspectRate = 0

\* absDiff = 50 with std = 10: z = 5, inside the dead zone, score 0.
C7_Witness ==
    /\ scored
    /\ ScoreStd = Ms(10)
    /\ ScoreAbsDiff = Ms(50)
    /\ suspectRate = 0

\* C18: for every participant average, robust mean and robust std >= 0 the
\* suspicion score is an integer from 0 to 100.
C18_ScoreRange ==
    /\ suspectRate \in 0..100
    /\ scored => suspectRate \in {0} \cup 30..100

\* z = 16, far beyond the last tier: the score is 100, not more.
C18_Witness ==
    /\ scored
    /\ ScoreStd = Ms(10)
    /\ ScoreAbsDiff = Ms(160)
    /\ suspectRate = 100

\* sub is obtained from whole by deleting elements, the order kept.
RECURSIVE IsSubList(_, _)
IsSubList(sub, whole) ==
    IF sub = << >> THEN TRUE
    ELSE IF whole = << >> THEN FALSE
    ELSE IF Head(sub) = Head(whole) THEN IsSubList(Tail(sub), Tail(whole))
    ELSE IsSubList(sub, Tail(whole))

\* C17: calculateRobustMean returns after at most 10 trimming iterations,
\* each of which strictly shrinks the working set; included is an
\* order-preserving sub-list of the input, non-empty when the input is, and
\* mean and std are the population mean and standard deviation of included.
C17_RobustMeanTerminates ==
    statsDone =>
        LET included == robustStats.included
            n == Len(included)
            sizes == trimTrace.sizes
        IN  /\ trimTrace.iterations <= 10
            /\ studentAverages # << >> =>
                  /\ Len(sizes) = trimTrace.iterations + 1
                  /\ sizes[1] = Len(studentAverages)
                  /\ sizes[Len(sizes)] = n
                  /\ \A i \in 1..(Len(sizes) - 1) : sizes[i + 1] < sizes[i]
                  /\ n > 0
            /\ IsSubList(included, studentAverages)
            /\ RMul(robustStats.mean, RInt(n)) = RSum(included)
            /\ RMul(robustStats.std.sq, RInt(n)) =
                  SumSqDev(included, robustStats.mean)

\* Ten rounds, each trimming the largest value, stopped by the cap with
\* six values left.
C17_Witness ==
    /\ statsDone
    /\ studentAverages = DoublingAverages
    /\ trimTrace.iterations = 10
    /\ trimTrace.sizes = <<16, 15, 14, 13, 12, 11, 10, 9, 8, 7, 6>>
    /\ Len(robustStats.included) = 6

\* The square of the z-score of studentAverages[i] in the whole list is
\* at most bound.
ZSquaredAtMost(i, bound) ==
    LET ms == calculateMeanStd(studentAverages)
        d == RSub(studentAverages[i], ms.mean)
    IN  RLe(RMul(d, d), RMul(RInt(bound), ms.std.sq))

-----------------------------------------------------------------------------
(* Claims about refreshAttendLog, checked under SpecRefresh *)

\* A fetched row whose token the session minted and whose delta is >= 0.
Survives(row) ==
    /\ row.cipher \in DOMAIN tokenCreatedAt
    /\ Ms(row.serverRecvTs) - tokenCreatedAt[row.cipher] >= 0

\* serverRecvTs - createdAt over the surviving rows that satisfy Test, in log
\* order.
ExpectedDeltas(Test(_)) ==
    LET pick(row) == Survives(row) /\ Test(row)
        rows == SelectSeq(items, pick)
    IN  [i \in 1..Len(rows) |->
            Ms(rows[i].serverRecvTs) - tokenCreatedAt[rows[i].cipher]]

\* C4: for each participant the aggregator yields exactly the deltas
\* serverRecvTs - createdAt, in log order, of the fetched events whose token
\* is a key of tokenCreatedAt and whose delta is >= 0 (0 is kept); other
\* events contribute to no participant.  The fixed-threshold page lists the
\* same surviving events, one row each.
C4_DeltasPerParticipant ==
    /\ (refreshed /\ page = "part_000") =>
          /\ \A i, j \in 1..Len(studentData) :
                i # j => studentData[i].studentId # studentData[j].studentId
          /\ \A sid \in StudentIds :
                LET mine(row) == row.studentId = sid
                    expected == ExpectedDeltas(mine)
                    i == IndexOfStudent(studentData, sid)
                IN  IF expected = << >> THEN i = 0
                    ELSE i # 0 /\ studentData[i].deltas = expected
          /\ \A i \in 1..Len(studentData) :
                studentData[i].studentId \in StudentIds
    /\ (refreshed /\ page = "generator.js") =>
          LET any(row) == TRUE
              expected == ExpectedDeltas(any)
          IN  /\ Len(profLogTable) = Len(expected)
              /\ \A i \in 1..Len(expected) : profLogTable[i].delta = expected[i]

\* A delta of 0 kept for a participant beside an event that is dropped
\* (foreign token or negative delta).
C4_Witness ==
    /\ refreshed
    /\ page = "part_000"
    /\ \E i \in 1..Len(studentData) :
          \E k \in 1..Len(studentData[i].deltas) : studentData[i].deltas[k] = 0
    /\ \E i \in 1..Len(items) : ~Survives(items[i])

\* C8: the fixed-threshold scorer classifies a delta as normal below 250,
\* suspect from 250 to below 600 and high from 600; a token created at 1000
\* and received at 1300 gives delta 300 and the classification suspect.
C8_FixedThresholds ==
    (refreshed /\ page = "generator.js") =>
        /\ \A i \in 1..Len(profLogTable) :
              LET r == profLogTable[i]
              IN  /\ r.delta >= 0
                  /\ r.risk = "normal" <=> r.delta < Ms(250)
                  /\ r.risk = "suspect" <=>
                        (Ms(250) <= r.delta /\ r.delta < Ms(600))
                  /\ r.risk = "high" <=> Ms(600) <= r.delta
        /\ \A i \in 1..Len(items) :
              (/\ items[i].cipher \in DOMAIN tokenCreatedAt
               /\ tokenCreatedAt[items[i].cipher] = Ms(1000)
               /\ items[i].serverRecvTs = 1300) =>
                  \E k \in 1..Len(profLogTable) :
                      /\ profLogTable[k].id = items[i].id
                      /\ profLogTable[k].delta = Ms(300)
                      /\ profLogTable[k].risk = "suspect"

\* The end-to-end example next to a row on the 250 boundary.
C8_Witness ==
    /\ refreshed
    /\ page = "generator.js"
    /\ \E k \in 1..Len(profLogTable) :
          profLogTable[k].delta = Ms(300) /\ profLogTable[k].risk = "suspect"
    /\ \E k \in 1..Len(profLogTable) :
          profLogTable[k].delta = Ms(250) /\ profLogTable[k].risk = "suspect"

\* The participants with at least one surviving event.
Scanned ==
    {sid \in StudentIds :
        \E i \in 1..Len(items) :
            Survives(items[i]) /\ items[i].studentId = sid}

\* C23: the list handed to calculateRobustMean holds exactly one value per
\* participant with a surviving delta, the mean of all that participant's
\* deltas, however many events the participant has; a participant without a
\* surviving delta is in neither the list nor the table, and no entry of
\* studentData has an empty delta list.
C23_OneAveragePerParticipant ==
    (refreshed /\ page = "part_000") =>
        /\ Len(studentAverages) = Cardinality(Scanned)
        /\ Len(studentData) = Cardinality(Scanned)
        /\ \A i \in 1..Len(studentData) :
              LET sid == studentData[i].studentId
                  mine(row) == row.studentId = sid
                  expected == ExpectedDeltas(mine)
              IN  /\ sid \in Scanned
                  /\ studentData[i].deltas # << >>
                  /\ studentAverages[i] =
                        Frac(SumSeq(expected), Len(expected))
        /\ Len(profLogTable) = Cardinality(Scanned)
        /\ {profLogTable[k].studentId : k \in 1..Len(profLogTable)} = Scanned

\* One participant with two events of different deltas gives one value,
\* while the other participant, without an event, gives none.
C23_Witness ==
    /\ refreshed
    /\ page = "part_000"
    /\ Len(studentData) = 1
    /\ Len(studentData[1].deltas) = 2
    /\ studentData[1].deltas[1] # studentData[1].deltas[2]
    /\ Len(studentAverages) = 1
    /\ Cardinality(Scanned) = 1

-----------------------------------------------------------------------------
(* Claims about the issuing session, checked under Spec *)

\* C9: on a successful probe the offset is T - (t0 + (t3 - t0)/2), that is
\* 2*offset = 2*T - t0 - t3 in milliseconds; t0 = 1000, T = 1050, t3 = 1020
\* give 40.
C9_OffsetIsMidpointEstimate ==
    probe.outcome = "ok" =>
        /\ timeOffsetMs = 2 * probe.serverTime - probe.t0 - probe.t3
        /\ (probe.t0 = 1000 /\ probe.serverTime = 1050 /\ probe.t3 = 1020) =>
              timeOffsetMs = Ms(40)

\* The spec's example probe, a token already stamped with 40 ms added.
C9_Witness ==
    /\ probe = [outcome |-> "ok", t0 |-> 1000, t3 |-> 1020,
                serverTime |-> 1050]
    /\ timeOffsetMs = Ms(40)
    /\ \E c \in DOMAIN tokenCreatedAt : tokenCreatedAt[c] = Ms(1020 + 40)

\* C10: when the probe fails the offset is 0 and the start handler goes on
\* to start the issuance loop: the session is running with a render-loop
\* callback queued, and tokens are stamped with the unadjusted local time.
C10_FailedProbeStillStarts ==
    probe.outcome = "failed" =>
        /\ timeOffsetMs = 0
        /\ running
        /\ rafPending = 1
        /\ \A m \in mints : \E t \in ClientTimes : m.now = Ms(t)
        /\ \A c \in DOMAIN tokenCreatedAt :
              \E t \in ClientTimes : tokenCreatedAt[c] = Ms(t)

\* A token minted and on screen after a failed probe.
C10_Witness ==
    /\ probe.outcome = "failed"
    /\ timeOffsetMs = 0
    /\ qr # ""
    /\ qr \in DOMAIN tokenCreatedAt

-----------------------------------------------------------------------------
(* Claims about the issuance loop, checked under SpecSteady and Spec *)

\* A step that runs one frame callback: the frame clock advances outside
\* the start handler.
Ticked == probe' = probe /\ perfClock' # perfClock

\* C11: once the issuance loop runs, every tick schedules the next one
\* whatever became of the mints it started: running stays true and a frame
\* callback stays queued, after any number of consecutive failures.
C11_LoopNeverStops ==
    [][/\ running => running'
       /\ probe.outcome \in {"ok", "failed"} =>
             /\ rafPending >= 1
             /\ rafPending' >= 1
       /\ Ticked => rafPending' = rafPending /\ rafPending' >= 1]_vars

\* Every mint of a long session has failed and the loop is still scheduled.
C11_Witness ==
    /\ consecutiveErrors = MaxSteadyMints
    /\ consecutiveErrors > PersistentErrors
    /\ running
    /\ rafPending = 1
    /\ perfClock = lastTokenUpdate

\* The mints that complete in a step.
Completing == {m \in mints : \A k \in mints' : k.token # m.token}

\* C12: consecutiveErrors counts the mint failures completed since the last
\* mint that completed successfully: it is 0 at load, a success resets it to
\* 0, a failure adds 1, nothing else changes it; a failing mint leaves the
\* persistent-failure message exactly when the count is then 10 or more,
\* the per-error message otherwise.
C12_ErrorCounter ==
    [][/\ Completing = {} => consecutiveErrors' = consecutiveErrors
       /\ \A m \in Completing :
             IF qr' = m.token
             THEN consecutiveErrors' = 0
             ELSE /\ consecutiveErrors' = consecutiveErrors + 1
                  /\ consecutiveErrors' >= 10 =>
                        statusEl' = "errors keep repeating"
                  /\ consecutiveErrors' < 10 => statusEl' = "error"]_vars

\* Ten failures in a row after a mint that succeeded.
C12_Witness ==
    /\ qr = "tok1"
    /\ consecutiveErrors = 10
    /\ statusEl = "errors keep repeating"
    /\ minted = 11

\* C15: selecting a finite positive integer v sets targetFps to v and
\* minTokenInterval to round(1000 / v) and leaves running, lastTokenUpdate,
\* frameCount, lastFpsUpdate, the clock offset, tokenCreatedAt and the queued
\* frame callback as they are; any other selection changes nothing.  The
\* interval is the one of the current selection at every moment, so the next
\* tick already mints by it.
C15_FpsChange ==
    /\ []IsRounded(minTokenInterval, 1000, targetFps)
    /\ [][fpsSelect' # fpsSelect =>
            IF fpsSelect'.finite /\ fpsSelect'.n > 0
            THEN /\ targetFps' = fpsSelect'.n
                 /\ IsRounded(minTokenInterval', 1000, fpsSelect'.n)
                 /\ UNCHANGED <<running, lastTokenUpdate, frameCount,
                                lastFpsUpdate, timeOffsetMs, tokenCreatedAt,
                                rafPending, mints, minted, probe>>
            ELSE UNCHANGED <<tokenCreatedAt, loopVars, mintVars, startVars,
                             statusEl, clientClock>>]_vars
    /\ [][(Ticked /\ minted' = minted) =>
            perfClock' - lastTokenUpdate < minTokenInterval]_vars

\* 15 FPS selected in a running session after a token was minted at 17 ms:
\* the frame at 40 ms is counted and mints nothing (40 - 17 < 67).
C15_Witness ==
    /\ running
    /\ targetFps = 15
    /\ minTokenInterval = 67
    /\ minted = 1
    /\ lastTokenUpdate = 17
    /\ perfClock = 40
    /\ frameCount >= 2

\* C16: a tick starts a mint if and only if now - lastTokenUpdate >=
\* minTokenInterval, and then sets lastTokenUpdate to now while the mint is
\* still in flight; no other step starts a mint or moves lastTokenUpdate
\* once the loop runs.  Hence successive mint starts are at least the
\* current minTokenInterval apart, whether or not the earlier mint failed.
C16_MintInterval ==
    [][/\ Ticked =>
             /\ minted' = minted + 1 <=>
                   perfClock' - lastTokenUpdate >= minTokenInterval
             /\ minted' = minted + 1 =>
                   /\ lastTokenUpdate' = perfClock'
                   /\ \E m \in mints' \ mints :
                         /\ m.token = TokenName(minted')
                         /\ m.stage = "key"
                         /\ mints' = mints \cup {m}
             /\ minted' # minted + 1 =>
                   /\ minted' = minted
                   /\ mints' = mints
                   /\ lastTokenUpdate' = lastTokenUpdate
       /\ ~Ticked =>
             /\ minted' = minted
             /\ lastTokenUpdate' # lastTokenUpdate =>
                   /\ lastTokenUpdate' = 0
                   /\ minted = 0]_vars

\* A second mint started 23 ms after the first one, which failed.
C16_Witness ==
    /\ minted = 2
    /\ targetFps = 60
    /\ lastTokenUpdate = 40
    /\ consecutiveErrors >= 1
    /\ \E m \in mints : m.token = "tok2" /\ m.stage = "key"

ProbeConcluded(p) == p.outcome \in {"ok", "failed"}

\* A creation time that is a reading of Date.now() plus the given offset.
StampedWith(created, offset) ==
    \E t \in ClientTimes : created = Ms(t) + offset

\* C19: in one issuing session at most one probe writes the clock offset,
\* no token is minted before that probe has concluded, and the offset does
\* not change afterwards: every token is stamped with the same offset.
C19_OneOffsetPerSession ==
    [][/\ ProbeConcluded(probe) =>
             /\ probe' = probe
             /\ timeOffsetMs' = timeOffsetMs
       /\ timeOffsetMs' # timeOffsetMs =>
             /\ probe.outcome = "pending"
             /\ minted' = 0
       /\ minted' > 0 => ProbeConcluded(probe')
       /\ \A m \in mints' : StampedWith(m.now, timeOffsetMs')
       /\ \A c \in DOMAIN tokenCreatedAt' :
             StampedWith(tokenCreatedAt'[c], timeOffsetMs')]_vars

\* Two tokens minted at different local times after a probe that found the
\* server 40 ms ahead, both stamped with that offset.
C19_Witness ==
    /\ probe.outcome = "ok"
    /\ timeOffsetMs = Ms(40)
    /\ {"tok1", "tok2"} \subseteq DOMAIN tokenCreatedAt
    /\ tokenCreatedAt["tok1"] # tokenCreatedAt["tok2"]

\* The mint m is still in flight after the step, at the given stage.
StillInFlight(m, stage) == [m EXCEPT !.stage = stage] \in mints'

\* C20: with mints overlapping in any way, no mint is cancelled; a mint
\* whose encryption completes adds exactly one tokenCreatedAt entry, under
\* its own token, holding the synchronized time read when that mint started;
\* no entry is ever removed or overwritten.
C20_OverlappingMints ==
    [][/\ \A c \in DOMAIN tokenCreatedAt :
             /\ c \in DOMAIN tokenCreatedAt'
             /\ tokenCreatedAt'[c] = tokenCreatedAt[c]
       /\ LET added == DOMAIN tokenCreatedAt' \ DOMAIN tokenCreatedAt
              encrypted == {m \in mints : /\ m.stage = "encrypt"
                                          /\ StillInFlight(m, "render")}
          IN  /\ added = {m.token : m \in encrypted}
              /\ Cardinality(added) <= 1
              /\ \A m \in encrypted : tokenCreatedAt'[m.token] = m.now
       /\ \A m \in mints :
             \/ \E stage \in {"key", "encrypt", "render", "throw"} :
                   StillInFlight(m, stage)
             \/ m.stage \in {"render", "throw"}
       /\ \A k \in mints' :
             (\A m \in mints : m.token # k.token) =>
                 /\ k.now = Ms(clientClock') + timeOffsetMs
                 /\ k.stage = "key"
                 /\ k.token \notin DOMAIN tokenCreatedAt]_vars

\* The second token recorded while the first, started earlier, is still
\* being encrypted.
C20_Witness ==
    /\ "tok2" \in DOMAIN tokenCreatedAt
    /\ \E m \in mints :
          /\ m.token = "tok1"
          /\ m.stage = "encrypt"
          /\ m.now < tokenCreatedAt["tok2"]

\* C21: a token's creation time is in tokenCreatedAt before the token is
\* rendered: the token on screen is always a key of the map, and so is the
\* token of every mint that has reached the rendering.
C21_DisplayedTokenRecorded ==
    /\ qr # "" => qr \in DOMAIN tokenCreatedAt
    /\ \A m \in mints : m.stage = "render" => m.token \in DOMAIN tokenCreatedAt

\* The second token is on screen with its creation time on record.
C21_Witness ==
    /\ qr = "tok2"
    /\ "tok2" \in DOMAIN tokenCreatedAt
    /\ mints = {}

\* C22: the session key is generated at most once: however many mints
\* start, also while the import is pending, ensureSessionKey hands every one
\* the promise of the same importKey call, the promise variable is never
\* reset or replaced, and every mint encrypts under that one key.
C22_OneSessionKey ==
    /\ [](/\ keysGenerated <= 1
          /\ keysGenerated = 0 <=> sessionAesKeyPromise = "null"
          /\ minted > 0 => keysGenerated = 1
          /\ \A m \in mints : m.key = 1)
    /\ [][/\ keysGenerated' >= keysGenerated
          /\ sessionAesKeyPromise # "null" => sessionAesKeyPromise' # "null"
          /\ sessionAesKeyPromise \in {"fulfilled", "rejected"} =>
                sessionAesKeyPromise' = sessionAesKeyPromise
          /\ \A m \in mints' : m.stage = "encrypt" =>
                /\ m.key = keysGenerated'
                /\ sessionAesKeyPromise' = "fulfilled"]_vars

\* Two mints wait for the key while its import is still pending.
C22_Witness ==
    /\ sessionAesKeyPromise = "pending"
    /\ keysGenerated = 1
    /\ Cardinality(mints) = 2
    /\ \A m \in mints : m.stage = "key" /\ m.key = 1

\* C25: whatever clicks the start button receives, also while the probe of
\* the first click is awaited, syncServerTime is called at most once and at
\* most one renderLoop callback is queued at any time: a click on a running
\* page changes nothing, and the loop is started once, when the probe
\* concludes.
C25_StartedOnce ==
    /\ [](/\ syncCalls <= 1
          /\ rafPending <= 1
          /\ running <=> clicks >= 1
          /\ running <=> syncCalls = 1)
    /\ [][/\ clicks' > clicks /\ running =>
                UNCHANGED <<tokenCreatedAt, loopVars, mintVars, running,
                            startBtnDisabled, timeOffsetMs, probe, syncCalls,
                            statusEl, clientClock, fpsSelect>>
          /\ rafPending' # rafPending =>
                /\ rafPending = 0
                /\ rafPending' = 1
                /\ probe.outcome = "pending"
                /\ probe'.outcome # "pending"]_vars

\* A second click has arrived while the probe of the first is awaited.
C25_Witness ==
    /\ clicks = 2
    /\ probe.outcome = "pending"
    /\ syncCalls = 1
    /\ rafPending = 0

\* C26: whenever no mint is in flight, the token on screen is the token of
\* the most recently started mint among those that rendered, in whatever
\* order overlapping mints completed.
C26_NewestTokenDisplayed ==
    mints = {} /\ qr # "" => qr = TokenName(newestRendered)

-----------------------------------------------------------------------------
(* Claims about the payload, checked under SpecPayload *)

\* The bytes at offsets 1..4 read as a big-endian number, in base 65536.
TimestampField(payload) ==
    [mid |-> payload[2] * 256 + payload[3],
     lo |-> payload[4] * 256 + payload[5]]

\* Ten bytes: version 1 at offset 0, roomCode 1 at offset 5, four nonce
\* bytes at offsets 6..9.
FixedLayout(payload) ==
    /\ Len(payload) = 10
    /\ \A i \in 1..10 : payload[i] \in 0..255
    /\ payload[1] = 1
    /\ payload[6] = 1
    /\ SubSeq(payload, 7, 10) \in NonceValues

SameLayout ==
    (payloadPage # << >> /\ payloadServer # << >>) =>
        /\ Len(payloadPage) = Len(payloadServer)
        /\ SubSeq(payloadPage, 1, 6) = SubSeq(payloadServer, 1, 6)

\* C13 as stated: every payload is 10 bytes, version at offset 0, the value
\* timestampMs mod 2^32 as a big-endian uint32 at offsets 1..4, roomCode at
\* offset 5, four nonce bytes at offsets 6..9, for every timestamp the issuer
\* passes, the offset-corrected time included; both builders give the same
\* layout for the same timestamp.
C13_TimestampModExact ==
    /\ \A payload \in {payloadPage, payloadServer} \ {<< >>} :
          /\ FixedLayout(payload)
          /\ TimestampField(payload) = [mid |-> nowMs.mid, lo |-> nowMs.lo]
          /\ nowMs.half = 0
    /\ SameLayout

\* C13 amended: as above with the value floor(timestampMs) mod 2^32 at
\* offsets 1..4: the half millisecond of an offset-corrected time is dropped.
C13_TimestampFloorMod ==
    /\ \A payload \in {payloadPage, payloadServer} \ {<< >>} :
          /\ FixedLayout(payload)
          /\ TimestampField(payload) = [mid |-> nowMs.mid, lo |-> nowMs.lo]
    /\ SameLayout

\* A timestamp beyond 2^32 with a half millisecond, built by the page.
C13_Witness ==
    /\ nowMs = [hi |-> 417, mid |-> 4660, lo |-> 43981, half |-> 1]
    /\ Len(payloadPage) = 10
    /\ SubSeq(payloadPage, 1, 6) = <<1, 18, 52, 171, 205, 1>>

=============================================================================
